---- MODULE Spec2Model ----
(***************************************************************************)
(* TraceExecutorWrapper (runtime/extensions/evm/src/executor/wrapper.rs):  *)
(* the step tracer that wraps the evm crate's StackExecutor.               *)
(*                                                                         *)
(* The wrapper's own code (trace, trace_call, trace_create and the         *)
(* Handler implementation) is translated statement by statement.  The      *)
(* engine it drives (evm 0.20: Machine, Runtime, Gasometer, StackExecutor) *)
(* is a dependency; its operations are modelled at the place the wrapper   *)
(* calls them, on a reduced instruction set:                               *)
(*    STOP PUSH POP MSTORE INVALID          (Opcode)                       *)
(*    SSTORE RETURN.. CALL STATICCALL DELEGATECALL CREATE (ExternalOpcode  *)
(*    or memory-costed opcodes whose cost computation peeks the stack)     *)
(* One code cell is one instruction, one memory cell is one word, CALL     *)
(* takes (gas, to, value) and an empty input/output range, CREATE takes    *)
(* (value) and names its init code by an immediate.                        *)
(***************************************************************************)
EXTENDS Integers, Sequences, FiniteSets, TLC

VARIABLES
    is_tracing,   \* TraceExecutorWrapper.is_tracing
    step_logs,    \* TraceExecutorWrapper.step_logs
    inner,        \* TraceExecutorWrapper.inner: the StackExecutor
    frames,       \* the activations of trace_call / trace_create, outermost first
    phase,        \* "new" | "running" | "returned" | "panicked" | "overflow"
    result,       \* what the top-level trace_call / trace_create returned
    hist          \* history of the run, read by the properties only

vars == <<is_tracing, step_logs, inner, frames, phase, result, hist>>

----------------------------------------------------------------------------
(* Bounds of the model *)

\* Activations of trace_call/trace_create the native stack holds before it overflows.
MaxFrames == 3

----------------------------------------------------------------------------
(* Values *)

\* u64::MAX, scaled to TLC's integers; nothing is ever added to it.
U64_MAX == 1000000

\* A stack word above u64::MAX: the CALL's gas argument then arrives as None.
BigWord == U64_MAX + 1

\* Config::call_stack_limit (1024 in the crate), scaled.
call_stack_limit == 1

\* Config::call_stipend (2300 in the crate), scaled.
call_stipend == 1

Addr == [A |-> 1, B |-> 2, EOA |-> 3, New0 |-> 4, New1 |-> 5]

Addresses == 1..5

None == [some |-> FALSE, v |-> 0]

Some(x) == [some |-> TRUE, v |-> x]

Reason(k, w) == [kind |-> k, why |-> w]

Stopped == Reason("Succeed", "Stopped")

Returned == Reason("Succeed", "Returned")

Suicided == Reason("Succeed", "Suicided")

Reverted == Reason("Revert", "Reverted")

ErrorOf(e) == Reason("Error", e)

FatalOf(e) == Reason("Fatal", e)

NoReason == Reason("None", "")

\* Capture::Exit((reason, address, output)); a call carries address None.
Exit(reason, address, output) ==
    [capture |-> "Exit", reason |-> reason, address |-> address, output |-> output]

NoResult == [capture |-> "None", reason |-> NoReason, address |-> None, output |-> <<>>]

----------------------------------------------------------------------------
(* Programs *)

Ins(o) == [op |-> o, arg |-> 0]

Push(v) == [op |-> "PUSH", arg |-> v]

Create(i) == [op |-> "CREATE", arg |-> i]

\* value, to, gas are pushed in this order: gas is on top when CALL executes.
CallSeq(gas, to, value) == <<Push(value), Push(to), Push(gas), Ins("CALL")>>

StaticCallSeq(gas, to) == <<Push(to), Push(gas), Ins("STATICCALL")>>

DelegateCallSeq(gas, to) == <<Push(to), Push(gas), Ins("DELEGATECALL")>>

\* memory[0] := v; return memory[0..1)
ReturnSeq(v) == <<Push(v), Push(0), Ins("MSTORE"), Push(1), Push(0), Ins("RETURN")>>

RevertSeq(v) == <<Push(v), Push(0), Ins("MSTORE"), Push(1), Push(0), Ins("REVERT")>>

\* storage[0] := v
StoreSeq(v) == <<Push(v), Push(0), Ins("SSTORE")>>

\* log of memory[0..0)
LogSeq == <<Push(0), Push(0), Ins("LOG0")>>

\* storage[0] := v, read it back, log, self-destruct to the given target
HostSeq(v, target) ==
    StoreSeq(v) \o <<Push(0), Ins("SLOAD")>> \o LogSeq \o <<Push(target), Ins("SUICIDE")>>

----------------------------------------------------------------------------
(* The engine: gasometer *)

Keys == {0}

\* A storage slot the account's cache does not hold.
Unset == 0 - 1

Min(a, b) == IF a < b THEN a ELSE b

Last(s) == s[Len(s)]

Front(s) == SubSeq(s, 1, Len(s) - 1)

\* Gasometer::new
NewGasometer(gas_limit) == [gas_limit |-> gas_limit, used_gas |-> 0, failed |-> FALSE]

\* Gasometer::gas: what is left, 0 once the gasometer has failed.
GasOf(g) == IF g.failed THEN 0 ELSE g.gas_limit - g.used_gas

\* Gasometer::fail
FailGas(g) == [g EXCEPT !.failed = TRUE]

\* Gasometer::record_cost: [g, err]
record_cost(g, cost) ==
    IF g.failed THEN [g |-> g, err |-> "OutOfGas"]
    ELSE IF g.gas_limit < g.used_gas + cost
         THEN [g |-> FailGas(g), err |-> "OutOfGas"]
         ELSE [g |-> [g EXCEPT !.used_gas = @ + cost], err |-> ""]

\* Gasometer::record_stipend
record_stipend(g, stipend) ==
    IF g.failed THEN g ELSE [g EXCEPT !.used_gas = @ - stipend]

\* gasometer::opcode_cost (wrapper.rs:57): the GasCost of an instruction, or the
\* StackUnderflow of a peek below the stack.  External opcodes that write are
\* GasCost::Invalid under a static substate.
opcode_cost(opcode, stack, is_static) ==
    LET n == Len(stack)
        peek(i) == stack[n - i]
        under == [ok |-> FALSE, cost |-> "", err |-> "StackUnderflow"]
        ok(c) == [ok |-> TRUE, cost |-> c, err |-> ""]
    IN CASE opcode.op = "STOP" -> ok("Zero")
         [] opcode.op = "PUSH" -> ok("VeryLow")
         [] opcode.op = "POP" -> ok("Base")
         [] opcode.op = "INVALID" -> ok("Invalid")
         [] opcode.op = "MSTORE" -> IF n < 1 THEN under ELSE ok("VeryLow")
         [] opcode.op \in {"RETURN", "REVERT"} -> IF n < 2 THEN under ELSE ok("Zero")
         [] opcode.op = "SSTORE" ->
              IF is_static THEN ok("Invalid")
              ELSE IF n < 2 THEN under ELSE ok("SStore")
         [] opcode.op = "CREATE" ->
              IF n < 1 THEN under
              ELSE IF is_static THEN ok("Invalid") ELSE ok("Create")
         [] opcode.op = "CALL" ->
              IF n < 3 THEN under
              ELSE IF is_static /\ peek(2) # 0 THEN ok("Invalid") ELSE ok("Call")
         [] opcode.op \in {"STATICCALL", "DELEGATECALL"} ->
              IF n < 2 THEN under ELSE ok("Call")
         [] opcode.op = "SLOAD" -> ok("SLoad")
         [] opcode.op = "LOG0" ->
              IF is_static THEN ok("Invalid")
              ELSE IF n < 2 THEN under ELSE ok("Log")
         [] opcode.op = "SUICIDE" ->
              IF is_static THEN ok("Invalid")
              ELSE IF n < 1 THEN under ELSE ok("Suicide")
         [] OTHER -> ok("Invalid")

\* Inner::gas_cost (wrapper.rs:72): the realized cost, or OutOfGas for GasCost::Invalid.
gas_cost(cost) ==
    CASE cost = "Zero" -> [ok |-> TRUE, gas |-> 0]
      [] cost = "Base" -> [ok |-> TRUE, gas |-> 1]
      [] cost = "VeryLow" -> [ok |-> TRUE, gas |-> 1]
      [] cost = "SStore" -> [ok |-> TRUE, gas |-> 2]
      [] cost = "Call" -> [ok |-> TRUE, gas |-> 2]
      [] cost = "Create" -> [ok |-> TRUE, gas |-> 2]
      [] cost \in {"SLoad", "Log", "Suicide"} -> [ok |-> TRUE, gas |-> 1]
      [] OTHER -> [ok |-> FALSE, gas |-> 0]

\* Gasometer::record_opcode: charge one instruction; a failure fails the gasometer.
record_opcode(g, cost) ==
    IF g.failed THEN [g |-> g, err |-> "OutOfGas"]
    ELSE LET c == gas_cost(cost)
         IN IF ~c.ok THEN [g |-> FailGas(g), err |-> "OutOfGas"]
            ELSE record_cost(g, c.gas)

\* costs l64: all but one 64th
l64(gas) == gas - (gas \div 64)

----------------------------------------------------------------------------
(* The engine: substates and accounts *)

Context(address, caller, value) ==
    [address |-> address, caller |-> caller, apparent_value |-> value]

Transfer(source, target, value) == [source |-> source, target |-> target, value |-> value]

NoAccount == [present |-> FALSE, balance |-> 0, nonce |-> 0,
              storage |-> [k \in Keys |-> Unset]]

\* StackExecutor::new: one root substate of depth None (-1).
NewExecutor(backend, gas_limit) ==
    [backend |-> backend,
     substates |-> << [gasometer |-> NewGasometer(gas_limit), is_static |-> FALSE,
                       depth |-> 0 - 1, state |-> [a \in Addresses |-> NoAccount],
                       logs |-> <<>>, deleted |-> {}] >>]

\* StackExecutor::substates().last()
TopSubstate(E) == Last(E.substates)

\* Option<usize>::unwrap_or_default of the substate's depth (wrapper.rs:84)
DepthOrDefault(substate) == IF substate.depth < 0 THEN 0 ELSE substate.depth

\* StackExecutor::gas (wrapper.rs:85)
ExecutorGas(E) == GasOf(TopSubstate(E).gasometer)

WithTop(E, sub) == [E EXCEPT !.substates[Len(E.substates)] = sub]

WithGas(E, g) == WithTop(E, [TopSubstate(E) EXCEPT !.gasometer = g])

\* StackExecutor::account: the innermost substate that holds the account.
account(E, a) ==
    LET held == {i \in 1..Len(E.substates) : E.substates[i].state[a].present}
    IN IF held = {} THEN None
       ELSE Some(E.substates[CHOOSE i \in held : \A j \in held : j <= i].state[a])

\* StackExecutor::account_mut (wrapper.rs:128): materialize the account in the
\* innermost substate, from an outer substate or else from the backend's basic.
account_mut(E, a) ==
    IF TopSubstate(E).state[a].present THEN E
    ELSE LET found == account(E, a)
             acc == IF found.some THEN found.v
                    ELSE [present |-> TRUE, balance |-> E.backend.balance[a],
                          nonce |-> E.backend.nonce[a],
                          storage |-> [k \in Keys |-> Unset]]
         IN WithTop(E, [TopSubstate(E) EXCEPT !.state[a] = acc])

\* StackExecutor::code (wrapper.rs:126)
code(E, a) == E.backend.code[a]

\* Handler::balance
balance(E, a) ==
    LET found == account(E, a)
    IN IF found.some THEN found.v.balance ELSE E.backend.balance[a]

\* StackExecutor::nonce
nonce(E, a) ==
    LET found == account(E, a)
    IN IF found.some THEN found.v.nonce ELSE E.backend.nonce[a]

\* Handler::storage
storage(E, a, k) ==
    LET found == account(E, a)
    IN IF found.some /\ found.v.storage[k] # Unset THEN found.v.storage[k]
       ELSE E.backend.storage[a][k]

\* Handler::set_storage (wrapper.rs:260): always Ok.
set_storage(E, a, k, v) ==
    LET E1 == account_mut(E, a)
    IN WithTop(E1, [TopSubstate(E1) EXCEPT !.state[a].storage[k] = v])

\* Handler::log (wrapper.rs:264): always Ok.
log(E, a) == WithTop(E, [TopSubstate(E) EXCEPT !.logs = Append(@, a)])

\* StackExecutor::transfer: withdraw then deposit; OutOfFund changes nothing.
transfer(E, t) ==
    LET E1 == account_mut(E, t.source)
    IN IF TopSubstate(E1).state[t.source].balance < t.value
       THEN [E |-> E1, err |-> "OutOfFund"]
       ELSE LET E2 == WithTop(E1, [TopSubstate(E1) EXCEPT
                                     !.state[t.source].balance = @ - t.value])
                E3 == account_mut(E2, t.target)
            IN [E |-> WithTop(E3, [TopSubstate(E3) EXCEPT
                                     !.state[t.target].balance = @ + t.value]),
                err |-> ""]

\* StackExecutor::mark_delete (wrapper.rs:268): the balance goes to the target,
\* the account is marked deleted. [E, err]
mark_delete(E, a, target) ==
    LET moved == transfer(E, Transfer(a, target, balance(E, a)))
    IN IF moved.err # "" THEN moved
       ELSE [E |-> WithTop(moved.E, [TopSubstate(moved.E) EXCEPT
                                       !.state[a].balance = 0,
                                       !.deleted = @ \cup {a}]),
             err |-> ""]

\* StackExecutor::enter_substate (wrapper.rs:127, 158): a fresh gasometer of
\* gas_limit; static if asked or if the parent is; one deeper than the parent.
enter_substate(E, gas_limit, is_static) ==
    LET parent == TopSubstate(E)
    IN [E EXCEPT !.substates = Append(@,
          [gasometer |-> NewGasometer(gas_limit),
           is_static |-> is_static \/ parent.is_static,
           depth |-> parent.depth + 1,
           state |-> [a \in Addresses |-> NoAccount],
           logs |-> <<>>, deleted |-> {}])]

\* StackExecutor::exit_substate: Succeeded merges the substate into its parent and
\* hands back the unused gas, Reverted hands back the gas, Failed drops it all.
exit_substate(E, kind) ==
    LET exited == TopSubstate(E)
        parent == E.substates[Len(E.substates) - 1]
        back == [parent EXCEPT !.gasometer = record_stipend(@, GasOf(exited.gasometer))]
        merged == [back EXCEPT
                     !.state = [a \in Addresses |->
                                  IF exited.state[a].present THEN exited.state[a]
                                  ELSE parent.state[a]],
                     !.logs = @ \o exited.logs,
                     !.deleted = @ \cup exited.deleted]
        new == CASE kind = "Succeeded" -> merged
                 [] kind = "Reverted" -> back
                 [] OTHER -> parent
    IN [E EXCEPT !.substates = Append(SubSeq(@, 1, Len(@) - 2), new)]

\* StackExecutor::create_address for CreateScheme::Legacy (wrapper.rs:156-157):
\* a function of the caller's nonce.
create_address(E, caller) == IF nonce(E, caller) = 0 THEN Addr.New0 ELSE Addr.New1

----------------------------------------------------------------------------
(* The engine: Machine and Runtime *)

PosOk(n) == [ok |-> TRUE, at |-> n, reason |-> NoReason]

PosErr(r) == [ok |-> FALSE, at |-> 0, reason |-> r]

\* Runtime::new (wrapper.rs:135, 165): position Ok(0), empty stack and memory.
NewRuntime(program, data, context) ==
    [code |-> program, data |-> data, context |-> context, position |-> PosOk(0),
     stack |-> <<>>, memory |-> <<>>, return_range |-> [off |-> 0, len |-> 0],
     status |-> NoReason, return_data_buffer |-> <<>>]

\* Machine::inspect (wrapper.rs:50): None when the position is an Err and also
\* when it is Ok but past the end of the code.
inspect(rt) ==
    IF rt.position.ok /\ rt.position.at < Len(rt.code)
    THEN Some(rt.code[rt.position.at + 1])
    ELSE None

\* Machine::exit
machine_exit(rt, reason) == [rt EXCEPT !.position = PosErr(reason)]

\* Machine::return_value (wrapper.rs:139, 143, 176, 182): the return range of the
\* memory, zero-filled past its end.
return_value(rt) ==
    [i \in 1..rt.return_range.len |->
        IF rt.return_range.off + i <= Len(rt.memory)
        THEN rt.memory[rt.return_range.off + i] ELSE 0]

\* Memory::set of one cell, resizing the memory to hold it.
memory_set(memory, off, v) ==
    [i \in 1..(IF off + 1 > Len(memory) THEN off + 1 ELSE Len(memory)) |->
        IF i = off + 1 THEN v ELSE IF i <= Len(memory) THEN memory[i] ELSE 0]

StepOut(rt, out, reason, ext) == [rt |-> rt, out |-> out, reason |-> reason, ext |-> ext]

ExitWith(rt, reason) ==
    StepOut([machine_exit(rt, reason) EXCEPT !.status = reason], "exit", reason, "")

\* Machine::step: evaluate one core opcode, or trap on an external one.
machine_step(rt) ==
    IF ~rt.position.ok THEN StepOut(rt, "exit", rt.position.reason, "")
    ELSE IF rt.position.at >= Len(rt.code) THEN ExitWith(rt, Stopped)
    ELSE LET opcode == rt.code[rt.position.at + 1]
             n == Len(rt.stack)
             next == [rt EXCEPT !.position = PosOk(rt.position.at + 1)]
         IN CASE opcode.op = "STOP" -> ExitWith(rt, Stopped)
              [] opcode.op = "PUSH" ->
                   StepOut([next EXCEPT !.stack = Append(@, opcode.arg)], "ok", NoReason, "")
              [] opcode.op = "POP" ->
                   IF n < 1 THEN ExitWith(rt, ErrorOf("StackUnderflow"))
                   ELSE StepOut([next EXCEPT !.stack = Front(@)], "ok", NoReason, "")
              [] opcode.op = "MSTORE" ->
                   IF n < 2
                   THEN ExitWith([rt EXCEPT !.stack = <<>>], ErrorOf("StackUnderflow"))
                   ELSE StepOut([next EXCEPT
                                   !.stack = SubSeq(@, 1, n - 2),
                                   !.memory = memory_set(@, rt.stack[n], rt.stack[n - 1])],
                                "ok", NoReason, "")
              [] opcode.op \in {"RETURN", "REVERT"} ->
                   IF n < 2
                   THEN ExitWith([rt EXCEPT !.stack = <<>>], ErrorOf("StackUnderflow"))
                   ELSE ExitWith([rt EXCEPT
                                    !.stack = SubSeq(@, 1, n - 2),
                                    !.return_range = [off |-> rt.stack[n],
                                                      len |-> rt.stack[n - 1]]],
                                 IF opcode.op = "RETURN" THEN Returned ELSE Reverted)
              [] opcode.op = "INVALID" -> ExitWith(rt, ErrorOf("DesignatedInvalid"))
              [] OTHER -> StepOut(next, "trap", NoReason, opcode.op)

\* pre_validate, after the cost was recorded on the gasometer.
pre_recorded(E, r) == [E |-> WithGas(E, r.g), err |-> r.err]

\* pre_validate, after gasometer::opcode_cost.
pre_costed(E, c) ==
    IF ~c.ok THEN [E |-> E, err |-> c.err]
    ELSE pre_recorded(E, record_opcode(TopSubstate(E).gasometer, c.cost))

\* StackExecutor::pre_validate (wrapper.rs:331): the cost of the instruction is
\* charged on the innermost substate's gasometer, under its static flag.
pre_validate(E, opcode, stack) ==
    pre_costed(E, opcode_cost(opcode, stack, TopSubstate(E).is_static))

\* Runtime::step after pre_validate: the status check, then Machine::step.
pre_validated(rt, pv) ==
    IF pv.err # ""
    THEN [E |-> pv.E,
          step |-> StepOut([machine_exit(rt, ErrorOf(pv.err)) EXCEPT !.status = ErrorOf(pv.err)],
                           "exit", ErrorOf(pv.err), "")]
    ELSE IF rt.status # NoReason
    THEN [E |-> pv.E, step |-> StepOut(rt, "exit", rt.status, "")]
    ELSE [E |-> pv.E, step |-> machine_step(rt)]

\* Runtime::step (wrapper.rs:106) up to the handler's evaluation of an external
\* opcode: pre_validate of the inspected instruction, the status check,
\* Machine::step.
step_pre(E, rt) ==
    pre_validated(rt, IF inspect(rt).some THEN pre_validate(E, inspect(rt).v, rt.stack)
                      ELSE [E |-> E, err |-> ""])

\* eval of SSTORE: pop index and value, Handler::set_storage on the context's account.
eval_sstore(E, rt) ==
    LET n == Len(rt.stack)
    IN [E |-> set_storage(E, rt.context.address, rt.stack[n], rt.stack[n - 1]),
        step |-> StepOut([rt EXCEPT !.stack = SubSeq(@, 1, n - 2)], "ok", NoReason, "")]

\* Memory::get: len cells from off, zero-filled past the end.
memory_get(memory, off, len) ==
    [i \in 1..len |-> IF off + i <= Len(memory) THEN memory[off + i] ELSE 0]

\* eval of SLOAD after Handler::storage gave value: pop the index, push the value.
sload_done(E, rt, value) ==
    [E |-> E,
     step |-> StepOut([rt EXCEPT !.stack = Append(Front(@), value)], "ok", NoReason, "")]

\* eval of an external opcode whose pop fails.
eval_underflow(E, rt) == [E |-> E, step |-> ExitWith(rt, ErrorOf("StackUnderflow"))]

\* eval of SLOAD with the engine as handler.
eval_sload(E, rt) ==
    IF Len(rt.stack) < 1 THEN eval_underflow(E, rt)
    ELSE sload_done(E, rt, storage(E, rt.context.address, rt.stack[Len(rt.stack)]))

\* The entry LOG0 emits: offset on top of the stack, the length below it.
LogEntry(rt) ==
    [address |-> rt.context.address,
     data |-> memory_get(rt.memory, rt.stack[Len(rt.stack)], rt.stack[Len(rt.stack) - 1])]

\* eval of LOG0 after Handler::log returned Ok.
log_done(E, rt) ==
    [E |-> E,
     step |-> StepOut([rt EXCEPT !.stack = SubSeq(@, 1, Len(@) - 2)], "ok", NoReason, "")]

\* eval of LOG0 with the engine as handler.
eval_log(E, rt) == log_done(log(E, LogEntry(rt)), rt)

\* eval of SUICIDE after Handler::mark_delete: its error, or Succeed(Suicided).
suicide_done(rt, r) ==
    [E |-> r.E,
     step |-> ExitWith([rt EXCEPT !.stack = Front(@)],
                       IF r.err # "" THEN ErrorOf(r.err) ELSE Suicided)]

\* eval of SUICIDE with the engine as handler.
eval_suicide(E, rt) ==
    suicide_done(rt, mark_delete(E, rt.context.address, rt.stack[Len(rt.stack)]))

\* eval of CALL, STATICCALL, DELEGATECALL: the popped arguments of Handler::call
\* and the runtime after the pops.  A gas word above u64::MAX is None.
call_args(rt, scheme) ==
    LET n == Len(rt.stack)
        gas == rt.stack[n]
        to == rt.stack[n - 1]
        value == IF scheme = "CALL" THEN rt.stack[n - 2] ELSE 0
        popped == IF scheme = "CALL" THEN 3 ELSE 2
    IN [rt |-> [rt EXCEPT !.stack = SubSeq(@, 1, n - popped)],
        code_address |-> to,
        transfer |-> IF scheme = "CALL"
                     THEN Some(Transfer(rt.context.address, to, value)) ELSE None,
        input |-> <<>>,
        target_gas |-> IF gas > U64_MAX THEN None ELSE Some(gas),
        is_static |-> scheme = "STATICCALL",
        context |-> IF scheme = "DELEGATECALL"
                    THEN Context(rt.context.address, rt.context.caller,
                                 rt.context.apparent_value)
                    ELSE Context(to, rt.context.address, value)]

\* eval of CALL..., after Handler::call returned Capture::Exit: the return data is
\* kept, 1 is pushed on Succeed and 0 otherwise; Fatal ends the caller's run.
call_finish(rt, res) ==
    LET kept == [rt EXCEPT !.return_data_buffer = res.output]
        flag == IF res.reason.kind = "Succeed" THEN 1 ELSE 0
        pushed == [kept EXCEPT !.stack = Append(@, flag)]
    IN IF res.reason.kind = "Fatal" THEN ExitWith(pushed, res.reason)
       ELSE StepOut(pushed, "ok", NoReason, "")

\* eval of CREATE: the popped arguments of Handler::create (no target gas).
create_args(rt, init_code) ==
    LET n == Len(rt.stack)
    IN [rt |-> [rt EXCEPT !.stack = SubSeq(@, 1, n - 1)],
        caller |-> rt.context.address,
        value |-> rt.stack[n],
        init_code |-> init_code,
        target_gas |-> None]

\* eval of CREATE, after Handler::create returned Capture::Exit: the address is
\* pushed on Succeed, 0 otherwise; Fatal ends the caller's run.
create_finish(rt, res) ==
    LET kept == [rt EXCEPT !.return_data_buffer = res.output]
        word == IF res.reason.kind = "Succeed" /\ res.address.some THEN res.address.v ELSE 0
        pushed == [kept EXCEPT !.stack = Append(@, word)]
    IN IF res.reason.kind = "Fatal" THEN ExitWith(pushed, res.reason)
       ELSE StepOut(pushed, "ok", NoReason, "")

----------------------------------------------------------------------------
(* Programs of the model *)

\* The init code a CREATE names by its immediate.
InitCode(i) ==
    CASE i = 0 -> <<>>
      [] i = 1 -> ReturnSeq(1)
      [] i = 2 -> RevertSeq(1)
      [] i = 3 -> <<Push(0), Create(3)>>
      [] OTHER -> <<Ins("STOP")>>

----------------------------------------------------------------------------
(* The engine run by itself: StackExecutor as its own Handler.  This is what  *)
(* call_inner and create_inner (wrapper.rs:288, 313) do with the tracing flag *)
(* disabled.                                                                  *)

RECURSIVE execute(_, _)
RECURSIVE call_inner(_, _)
RECURSIVE create_inner(_, _)

\* The eval of CALL... around the handler's call: [E, step]
called(rt, r) == [E |-> r.E, step |-> call_finish(rt, r.res)]

\* The eval of CREATE around the handler's create: [E, step]
created(rt, r) == [E |-> r.E, step |-> create_finish(rt, r.res)]

engine_call(E, a) == called(a.rt, call_inner(E, a))

engine_create(E, a) == created(a.rt, create_inner(E, a))

\* handler::eval with the StackExecutor as handler.
engine_eval(pre, init_code) ==
    IF pre.step.out # "trap" THEN pre
    ELSE IF pre.step.ext = "SSTORE" THEN eval_sstore(pre.E, pre.step.rt)
    ELSE IF pre.step.ext = "SLOAD" THEN eval_sload(pre.E, pre.step.rt)
    ELSE IF pre.step.ext = "LOG0" THEN eval_log(pre.E, pre.step.rt)
    ELSE IF pre.step.ext = "SUICIDE" THEN eval_suicide(pre.E, pre.step.rt)
    ELSE IF pre.step.ext = "CREATE"
    THEN engine_create(pre.E, create_args(pre.step.rt, init_code))
    ELSE engine_call(pre.E, call_args(pre.step.rt, pre.step.ext))

\* The init code of the CREATE the runtime is at (read from memory in the crate).
InitCodeAt(rt) ==
    IF rt.position.ok /\ rt.position.at < Len(rt.code)
    THEN InitCode(rt.code[rt.position.at + 1].arg) ELSE <<>>

\* Runtime::step with the StackExecutor as handler: [E, step]
engine_step(E, rt) == engine_eval(step_pre(E, rt), InitCodeAt(rt))

executed(s) ==
    IF s.step.out = "exit" THEN [E |-> s.E, rt |-> s.step.rt, reason |-> s.step.reason]
    ELSE execute(s.E, s.step.rt)

\* StackExecutor::execute: Runtime::run to the exit. [E, rt, reason]
execute(E, rt) == executed(engine_step(E, rt))

Failed(E, e) == [E |-> E, res |-> Exit(ErrorOf(e), None, <<>>)]

\* call_inner, from the exit reason of the run to the result.
call_exit(run) ==
    CASE run.reason.kind = "Succeed" ->
           [E |-> exit_substate(run.E, "Succeeded"),
            res |-> Exit(run.reason, None, return_value(run.rt))]
      [] run.reason.kind = "Revert" ->
           [E |-> exit_substate(run.E, "Reverted"),
            res |-> Exit(run.reason, None, return_value(run.rt))]
      [] OTHER ->
           [E |-> exit_substate(run.E, "Failed"), res |-> Exit(run.reason, None, <<>>)]

\* call_inner, after the transfer.
call_moved(moved, a) ==
    IF moved.err # "" THEN Failed(exit_substate(moved.E, "Reverted"), moved.err)
    ELSE call_exit(execute(moved.E,
                           NewRuntime(code(moved.E, a.code_address), a.input, a.context)))

\* call_inner, inside the new substate: the depth check, then the transfer.
call_entered(E1, a) ==
    IF TopSubstate(E1).depth > call_stack_limit
    THEN Failed(exit_substate(E1, "Reverted"), "CallTooDeep")
    ELSE call_moved(IF a.transfer.some THEN transfer(E1, a.transfer.v)
                    ELSE [E |-> E1, err |-> ""], a)

\* call_inner, after the gas limit was charged on the caller's gasometer.
call_charged(E, a, limit, charged) ==
    IF charged.err # "" THEN Failed(WithGas(E, charged.g), charged.err)
    ELSE call_entered(
           account_mut(enter_substate(WithGas(E, charged.g),
                                      IF a.transfer.some /\ a.transfer.v.value # 0
                                      THEN limit + call_stipend ELSE limit,
                                      a.is_static),
                       a.context.address), a)

\* The gas limit of a nested run: the target gas, at most all but one 64th.
GasLimitOf(E, target_gas) ==
    IF target_gas.some THEN Min(target_gas.v, l64(ExecutorGas(E))) ELSE l64(ExecutorGas(E))

charge(E, a, limit) == record_cost(TopSubstate(E).gasometer, limit)

call_limited(E, a, limit) == call_charged(E, a, limit, charge(E, a, limit))

\* StackExecutor::call_inner(code_address, transfer, input, target_gas, is_static,
\* take_l64 = true, take_stipend = true, context) (wrapper.rs:313-322): [E, res]
call_inner(E, a) == call_limited(E, a, GasLimitOf(E, a.target_gas))

\* create_inner, after the deposit of the returned code was charged.
create_deposited(run, deposit, address) ==
    IF deposit.err # ""
    THEN Failed(exit_substate(WithGas(run.E, deposit.g), "Failed"), deposit.err)
    ELSE [E |-> exit_substate(WithGas(run.E, deposit.g), "Succeeded"),
          res |-> Exit(run.reason, Some(address), <<>>)]

\* create_inner, from the exit reason of the run to the result.
create_exit(run, address) ==
    CASE run.reason.kind = "Succeed" ->
           create_deposited(run, record_cost(TopSubstate(run.E).gasometer,
                                             Len(return_value(run.rt))), address)
      [] run.reason.kind = "Revert" ->
           [E |-> exit_substate(run.E, "Reverted"),
            res |-> Exit(run.reason, None, return_value(run.rt))]
      [] OTHER ->
           [E |-> exit_substate(run.E, "Failed"), res |-> Exit(run.reason, None, <<>>)]

\* create_inner, after the transfer to the new address.
create_moved(moved, a, address) ==
    IF moved.err # "" THEN Failed(exit_substate(moved.E, "Reverted"), moved.err)
    ELSE create_exit(execute(moved.E,
                             NewRuntime(a.init_code, <<>>,
                                        Context(address, a.caller, a.value))),
                     address)

\* create_inner: the caller's nonce is bumped, the substate entered.
create_entered(E1, a, gas_limit, address) ==
    create_moved(
      transfer(enter_substate(
                 WithTop(E1, [TopSubstate(E1) EXCEPT !.state[a.caller].nonce = @ + 1]),
                 gas_limit, FALSE),
               Transfer(a.caller, address, a.value)),
      a, address)

\* create_inner, after the gas limit was charged on the caller's gasometer.
create_charged(E, a, gas_limit, charged) ==
    IF charged.err # "" THEN Failed(WithGas(E, charged.g), charged.err)
    ELSE create_entered(account_mut(WithGas(E, charged.g), a.caller), a, gas_limit,
                        create_address(E, a.caller))

create_limited(E, a, limit) == create_charged(E, a, limit, charge(E, a, limit))

\* StackExecutor::create_inner(caller, scheme, value, init_code, target_gas,
\* take_l64 = true) (wrapper.rs:287-288): [E, res]
create_inner(E, a) ==
    IF TopSubstate(E).depth + 1 > call_stack_limit THEN Failed(E, "CallTooDeep")
    ELSE IF balance(E, a.caller) < a.value THEN Failed(E, "OutOfFund")
    ELSE create_limited(E, a, GasLimitOf(E, a.target_gas))

----------------------------------------------------------------------------
(* TraceExecutorWrapper *)

EmptyStorage == [k \in Keys |-> Unset]

\* Variant of StepLog that snapshots the storage of the top-level target
\* instead of the account of the runtime's context.
StepLog_first(E, rt, opcode, substate, cost) ==
    [depth |-> DepthOrDefault(substate),
     gas |-> ExecutorGas(E),
     gas_cost |-> cost,
     memory |-> rt.memory,
     op |-> opcode.op,
     pc |-> rt.position.at,
     stack |-> rt.stack,
     storage |-> LET acc == account(E, Addr.A)
                 IN IF acc.some THEN acc.v.storage ELSE EmptyStorage]

\* wrapper.rs:83-98: the record of the instruction about to execute.
StepLog(E, rt, opcode, substate, cost) ==
    [depth |-> DepthOrDefault(substate),
     gas |-> ExecutorGas(E),
     gas_cost |-> cost,
     memory |-> rt.memory,
     op |-> opcode.op,
     pc |-> rt.position.at,
     stack |-> rt.stack,
     storage |-> LET acc == account(E, rt.context.address)
                 IN IF acc.some THEN acc.v.storage ELSE EmptyStorage]

NoLog == [depth |-> 0, gas |-> 0, gas_cost |-> 0, memory |-> <<>>, op |-> "",
          pc |-> 0, stack |-> <<>>, storage |-> EmptyStorage]

HeadOut(out, stage, reason, entry, costed) ==
    [out |-> out, stage |-> stage, reason |-> reason, log |-> entry, cost_ok |-> costed]

\* Variant of trace_costed that pushes the record before the gasometer is asked
\* for the realized cost.
trace_costed_early(E, rt, opcode, substate, gc) ==
    IF ~rt.position.ok
    THEN HeadOut("break", "position", rt.position.reason, NoLog, TRUE)
    ELSE HeadOut("log", "", NoReason, StepLog(E, rt, opcode, substate, gc.gas), TRUE)

\* wrapper.rs:69-98: the iteration after the cost computation succeeded.
trace_costed(E, rt, opcode, substate, gc) ==
    IF substate.gasometer.failed
    THEN HeadOut("break", "gasometer", ErrorOf("OutOfGas"), NoLog, TRUE)
    ELSE IF ~gc.ok THEN HeadOut("break", "gasometer", ErrorOf("OutOfGas"), NoLog, TRUE)
    ELSE IF ~rt.position.ok
    THEN HeadOut("break", "position", rt.position.reason, NoLog, TRUE)
    ELSE HeadOut("log", "", NoReason, StepLog(E, rt, opcode, substate, gc.gas), TRUE)

\* Variant of trace_inspected that reports every failed cost as OutOfGas.
trace_inspected_oog(E, rt, opcode, c) ==
    IF ~c.ok THEN HeadOut("break", "cost", ErrorOf("OutOfGas"), NoLog, FALSE)
    ELSE trace_costed(E, rt, opcode, TopSubstate(E), gas_cost(c.cost))

\* wrapper.rs:51-67: the iteration from the inspected instruction on.
trace_inspected(E, rt, opcode, c) ==
    IF ~c.ok THEN HeadOut("break", "cost", ErrorOf(c.err), NoLog, FALSE)
    ELSE trace_costed(E, rt, opcode, TopSubstate(E), gas_cost(c.cost))

\* wrapper.rs:50-104: one iteration of the trace loop up to Runtime::step.
\* out is "log" (a record is pushed, the step follows), "break" (the loop ends
\* with reason) or "panic" (unreachable! is reached).
trace_head(E, rt) ==
    IF inspect(rt).some
    THEN trace_inspected(E, rt, inspect(rt).v,
                         opcode_cost(inspect(rt).v, rt.stack, TopSubstate(E).is_static))
    ELSE IF ~rt.position.ok THEN HeadOut("break", "none", rt.position.reason, NoLog, FALSE)
         ELSE HeadOut("panic", "", NoReason, NoLog, FALSE)

\* wrapper.rs:106-114: what the loop does with the result of Runtime::step.
\* NoReason: continue.
trace_tail(step) ==
    CASE step.out = "ok" -> NoReason
      [] step.out = "exit" -> step.reason
      [] OTHER -> FatalOf("UnhandledInterrupt")

\* Variant of trace_call_enter that enters a static substate.
trace_call_enter_static(E, caller, address, value, data, gas_limit) ==
    [E |-> account_mut(enter_substate(E, gas_limit, TRUE), address),
     rt |-> NewRuntime(code(E, address), data, Context(address, caller, value)),
     address |-> address]

\* Variant of trace_call_enter that runs the callee in the caller's substate.
trace_call_enter_flat(E, caller, address, value, data, gas_limit) ==
    [E |-> account_mut(E, address),
     rt |-> NewRuntime(code(E, address), data, Context(address, caller, value)),
     address |-> address]

\* wrapper.rs:126-135: trace_call up to the trace loop.
trace_call_enter(E, caller, address, value, data, gas_limit) ==
    [E |-> account_mut(enter_substate(E, gas_limit, FALSE), address),
     rt |-> NewRuntime(code(E, address), data, Context(address, caller, value)),
     address |-> address]

\* Variant of trace_call_result that drops the output of a revert.
trace_call_result_norevert(reason, rt) ==
    CASE reason.kind = "Succeed" -> Exit(reason, None, return_value(rt))
      [] OTHER -> Exit(reason, None, <<>>)

\* wrapper.rs:137-146: the result of trace_call from the loop's exit reason.
trace_call_result(reason, rt) ==
    CASE reason.kind = "Succeed" -> Exit(reason, None, return_value(rt))
      [] reason.kind = "Error" -> Exit(reason, None, <<>>)
      [] reason.kind = "Revert" -> Exit(reason, None, return_value(rt))
      [] OTHER -> Exit(reason, None, <<>>)

\* wrapper.rs:156-170: trace_create up to the trace loop.
trace_create_enter(E, caller, value, init_code, gas_limit) ==
    LET address == create_address(E, caller)
    IN [E |-> enter_substate(E, gas_limit, FALSE),
        rt |-> NewRuntime(init_code, <<>>, Context(address, caller, value)),
        address |-> address]

\* Variant of trace_create_result that gives the address on a revert as well.
trace_create_result_revert(reason, address, rt) ==
    CASE reason.kind = "Succeed" -> Exit(reason, Some(address), return_value(rt))
      [] reason.kind = "Revert" -> Exit(reason, Some(address), return_value(rt))
      [] OTHER -> Exit(reason, None, <<>>)

\* wrapper.rs:172-185: the result of trace_create from the loop's exit reason.
trace_create_result(reason, address, rt) ==
    CASE reason.kind = "Succeed" -> Exit(reason, Some(address), return_value(rt))
      [] reason.kind = "Error" -> Exit(reason, None, <<>>)
      [] reason.kind = "Revert" -> Exit(reason, None, return_value(rt))
      [] OTHER -> Exit(reason, None, <<>>)

\* Variant of handler_call_args that takes caller and value from the context.
handler_call_args_context(a) ==
    [caller |-> a.context.caller,
     address |-> a.code_address,
     value |-> a.context.apparent_value,
     data |-> a.input,
     gas_limit |-> IF a.target_gas.some THEN a.target_gas.v ELSE U64_MAX]

\* wrapper.rs:301-310: the arguments Handler::call gives trace_call.
handler_call_args(a) ==
    [caller |-> IF a.transfer.some THEN a.transfer.v.source ELSE a.code_address,
     address |-> a.code_address,
     value |-> IF a.transfer.some THEN a.transfer.v.value ELSE 0,
     data |-> a.input,
     gas_limit |-> IF a.target_gas.some THEN a.target_gas.v ELSE U64_MAX]

\* wrapper.rs:280-284: the gas limit Handler::create gives trace_create.
handler_create_gas(target_gas) == IF target_gas.some THEN target_gas.v ELSE U64_MAX

\* An activation of trace_call ("call") or trace_create ("create"): its runtime,
\* the external opcode whose Handler::call/create it is waiting in (pending), and
\* the reason trace() returned (exit; NoReason while the loop runs).
\* Variant of handler_set_storage that reports Ok without forwarding the write.
handler_set_storage_dropped(E, a, k, v) == [E |-> E, err |-> ""]

\* Handler::storage (wrapper.rs:211-213)
handler_storage(E, a, k) == storage(E, a, k)

\* Handler::set_storage (wrapper.rs:259-261): [E, err]
handler_set_storage(E, a, k, v) == [E |-> set_storage(E, a, k, v), err |-> ""]

\* Handler::log (wrapper.rs:263-265): [E, err]
handler_log(E, a) == [E |-> log(E, a), err |-> ""]

\* Handler::mark_delete (wrapper.rs:267-269): [E, err]
handler_mark_delete(E, a, target) == mark_delete(E, a, target)

\* Handler::pre_validate (wrapper.rs:325-332): [E, err]
handler_pre_validate(E, opcode, stack) == pre_validate(E, opcode, stack)

\* eval of SSTORE or LOG0 after the handler returned r: its error ends the run.
mutated(rt, r) ==
    IF r.err # "" THEN [E |-> r.E, step |-> ExitWith(rt, ErrorOf(r.err))]
    ELSE log_done(r.E, rt)

\* eval of SSTORE with the wrapper as handler.
trace_sstore(E, rt) ==
    mutated(rt, handler_set_storage(E, rt.context.address, rt.stack[Len(rt.stack)],
                                    rt.stack[Len(rt.stack) - 1]))

\* eval of SLOAD with the wrapper as handler.
trace_sload(E, rt) ==
    IF Len(rt.stack) < 1 THEN eval_underflow(E, rt)
    ELSE sload_done(E, rt, handler_storage(E, rt.context.address, rt.stack[Len(rt.stack)]))

\* Variant of trace_eval that hands the trap of the external opcode back.
trace_eval_trap(pre) == pre

\* handler::eval of an external opcode other than a call or create, with the
\* wrapper as handler.
trace_eval(pre) ==
    IF pre.step.out # "trap" THEN pre
    ELSE IF pre.step.ext = "SSTORE" THEN trace_sstore(pre.E, pre.step.rt)
    ELSE IF pre.step.ext = "SLOAD" THEN trace_sload(pre.E, pre.step.rt)
    ELSE IF pre.step.ext = "LOG0"
    THEN mutated(pre.step.rt, handler_log(pre.E, LogEntry(pre.step.rt)))
    ELSE suicide_done(pre.step.rt,
                      handler_mark_delete(pre.E, pre.step.rt.context.address,
                                          pre.step.rt.stack[Len(pre.step.rt.stack)]))

\* Runtime::step (wrapper.rs:106) with the wrapper as handler, up to the
\* evaluation of an external opcode.
trace_step_pre(E, rt) ==
    pre_validated(rt, IF inspect(rt).some
                      THEN handler_pre_validate(E, inspect(rt).v, rt.stack)
                      ELSE [E |-> E, err |-> ""])

Frame(kind, rt, address, id, shadow) ==
    [kind |-> kind, rt |-> rt, address |-> address, pending |-> "", exit |-> NoReason,
     stage |-> "", id |-> id, shadow |-> shadow]

Top == frames[Len(frames)]

Running == phase = "running" /\ Top.exit = NoReason /\ Top.pending = ""

WithTopFrame(f) == [frames EXCEPT ![Len(frames)] = f]

NoRet == [kind |-> "", id |-> 0, address |-> 0, reason |-> NoReason,
          rt |-> NewRuntime(<<>>, <<>>, Context(0, 0, 0)),
          res |-> NoResult, shadow |-> NoResult]

NoAct == [parent |-> 0, trigger |-> 0, kind |-> ""]

----------------------------------------------------------------------------
(* Inputs *)

\* Code of account A, the target of the top-level call.
ProgramsA ==
    { <<>>,
      <<Push(1)>>,
      <<Ins("STOP")>>,
      <<Ins("POP")>>,
      <<Ins("MSTORE")>>,
      <<Ins("INVALID")>>,
      <<Push(1), Ins("INVALID")>>,
      <<Push(1), Ins("POP"), Ins("POP")>>,
      ReturnSeq(2),
      RevertSeq(1),
      StoreSeq(1) \o <<Ins("STOP")>>,
      <<Ins("SLOAD")>>,
      HostSeq(1, Addr.B),
      CallSeq(6, Addr.B, 0) \o <<Push(0), Ins("STOP")>>,
      CallSeq(6, Addr.B, 1) \o <<Ins("STOP")>>,
      CallSeq(2, Addr.B, 0) \o <<Ins("STOP")>>,
      CallSeq(BigWord, Addr.B, 0) \o <<Ins("STOP")>>,
      StaticCallSeq(6, Addr.B) \o ReturnSeq(1),
      DelegateCallSeq(6, Addr.B) \o <<Ins("STOP")>>,
      CallSeq(6, Addr.B, 0) \o CallSeq(6, Addr.B, 0) \o <<Ins("STOP")>>,
      CallSeq(8, Addr.A, 0) \o <<Ins("STOP")>>,
      <<Push(0), Create(1), Ins("STOP")>>,
      <<Push(0), Create(2), Ins("STOP")>>,
      <<Push(0), Create(3), Ins("STOP")>> }

\* Code of account B, the target of the nested calls.
ProgramsB ==
    { <<>>,
      <<Ins("STOP")>>,
      <<Ins("POP")>>,
      <<Ins("INVALID")>>,
      ReturnSeq(1),
      RevertSeq(1),
      StoreSeq(1) \o <<Ins("STOP")>>,
      LogSeq \o <<Ins("STOP")>>,
      StaticCallSeq(3, Addr.B) \o <<Ins("STOP")>> }

\* Init codes the top-level trace_create is given.
InitCodeIds == 0..3

GasLimits == {4, 6, 40}

Worlds ==
    { [code |-> [a \in Addresses |->
                   IF a = Addr.A THEN pa ELSE IF a = Addr.B THEN pb ELSE <<>>],
       balance |-> [a \in Addresses |-> IF a = Addr.A THEN bal ELSE 0],
       nonce |-> [a \in Addresses |-> 0],
       storage |-> [a \in Addresses |-> [k \in Keys |-> 0]]]
      : pa \in ProgramsA, pb \in ProgramsB, bal \in {0, 1} }

----------------------------------------------------------------------------
(* The state machine *)

\* TraceExecutorWrapper::new (wrapper.rs:41-47) over a fresh StackExecutor.
Init ==
    /\ is_tracing \in BOOLEAN
    /\ step_logs = <<>>
    /\ \E w \in Worlds, g \in GasLimits : inner = NewExecutor(w, g)
    /\ frames = <<>>
    /\ phase = "new"
    /\ result = NoResult
    /\ hist = [owner |-> <<>>, acts |-> <<>>, cost_ok |-> 0, all_ok |-> 0, last_ret |-> NoRet]

TxGas == inner.substates[1].gasometer.gas_limit

\* The caller invokes trace_call(caller, address, value, data, gas_limit) on A.
TopTraceCall ==
    /\ phase = "new"
    /\ LET entry == trace_call_enter(inner, Addr.EOA, Addr.A, 0, <<>>, TxGas)
       IN /\ inner' = entry.E
          /\ frames' = <<Frame("call", entry.rt, entry.address, 1, NoResult)>>
    /\ phase' = "running"
    /\ hist' = [hist EXCEPT !.acts = Append(@, [NoAct EXCEPT !.kind = "call"])]
    /\ UNCHANGED <<is_tracing, step_logs, result>>

\* The caller invokes trace_create(caller, value, code, gas_limit).
TopTraceCreate ==
    /\ phase = "new"
    /\ inner.backend.code[Addr.A] = <<>>
    /\ inner.backend.code[Addr.B] = <<>>
    /\ \E i \in InitCodeIds :
         LET entry == trace_create_enter(inner, Addr.EOA, 0, InitCode(i), TxGas)
         IN /\ inner' = entry.E
            /\ frames' = <<Frame("create", entry.rt, entry.address, 1, NoResult)>>
    /\ phase' = "running"
    /\ hist' = [hist EXCEPT !.acts = Append(@, [NoAct EXCEPT !.kind = "create"])]
    /\ UNCHANGED <<is_tracing, step_logs, result>>

Nesting == {"CALL", "STATICCALL", "DELEGATECALL", "CREATE"}

\* The instruction the top activation inspects was given a cost by opcode_cost.
CostOk ==
    /\ inspect(Top.rt).some
    /\ opcode_cost(inspect(Top.rt).v, Top.rt.stack, TopSubstate(inner).is_static).ok

\* ... and the gasometer gave it a realized cost, and the position was read.
AllOk ==
    /\ CostOk
    /\ ~TopSubstate(inner).gasometer.failed
    /\ gas_cost(opcode_cost(inspect(Top.rt).v, Top.rt.stack,
                            TopSubstate(inner).is_static).cost).ok
    /\ Top.rt.position.ok

Counted ==
    [hist EXCEPT !.cost_ok = @ + (IF CostOk THEN 1 ELSE 0),
                 !.all_ok = @ + (IF AllOk THEN 1 ELSE 0)]

Broke(h) ==
    /\ h.out = "break"
    /\ frames' = WithTopFrame([Top EXCEPT !.exit = h.reason, !.stage = h.stage])
    /\ hist' = Counted

\* wrapper.rs:57-81: the loop ends on a failed cost, gasometer or position.
TraceBreak ==
    /\ Running
    /\ Broke(trace_head(inner, Top.rt))
    /\ UNCHANGED <<is_tracing, step_logs, inner, phase, result>>

\* wrapper.rs:100-103: no instruction, and the position is Ok.
TracePanic ==
    /\ Running
    /\ trace_head(inner, Top.rt).out = "panic"
    /\ phase' = "panicked"
    /\ UNCHANGED <<is_tracing, step_logs, inner, frames, result, hist>>

Logged(h) == [Counted EXCEPT !.owner = Append(@, Top.id)]

\* Variant of Stepped that takes the record's stack and memory after the step.
Stepped_after(h, fin) ==
    /\ step_logs' = Append(step_logs, [h.log EXCEPT !.stack = fin.step.rt.stack,
                                                     !.memory = fin.step.rt.memory])
    /\ inner' = fin.E
    /\ frames' = WithTopFrame([Top EXCEPT !.rt = fin.step.rt, !.exit = trace_tail(fin.step)])
    /\ hist' = Logged(h)

\* Variant of Stepped that keeps only the latest record.
Stepped_latest(h, fin) ==
    /\ step_logs' = <<h.log>>
    /\ inner' = fin.E
    /\ frames' = WithTopFrame([Top EXCEPT !.rt = fin.step.rt, !.exit = trace_tail(fin.step)])
    /\ hist' = Logged(h)

\* wrapper.rs:83-114: the record is pushed, Runtime::step has run, and the loop
\* continues or breaks.
Stepped(h, fin) ==
    /\ step_logs' = Append(step_logs, h.log)
    /\ inner' = fin.E
    /\ frames' = WithTopFrame([Top EXCEPT !.rt = fin.step.rt, !.exit = trace_tail(fin.step)])
    /\ hist' = Logged(h)

\* Runtime::step traps on an external opcode that makes a host call or create.
HostCall(pre) == pre.step.out = "trap" /\ pre.step.ext \in Nesting

Plain(h, pre) ==
    /\ h.out = "log"
    /\ ~HostCall(pre)
    /\ Stepped(h, trace_eval(pre))

\* wrapper.rs:50-114: one iteration whose instruction the engine executes without
\* a host call or create: the record is pushed, then Runtime::step.
TraceStep ==
    /\ Running
    /\ Plain(trace_head(inner, Top.rt), trace_step_pre(inner, Top.rt))
    /\ UNCHANGED <<is_tracing, phase, result>>

\* Handler::create with the flag disabled (wrapper.rs:287-288).
forward_create(E, a) == created(a.rt, create_inner(E, a))

\* Variant of forward_call that forwards the call as not static.
forward_call_nostatic(E, a) ==
    called(a.rt, call_inner(E, [a EXCEPT !.is_static = FALSE]))

\* Handler::call with the flag disabled (wrapper.rs:313-322).
forward_call(E, a) == called(a.rt, call_inner(E, a))

Forwarded(h, pre) ==
    /\ h.out = "log"
    /\ HostCall(pre)
    /\ Stepped(h, IF pre.step.ext = "CREATE"
                  THEN forward_create(pre.E, create_args(pre.step.rt, InitCodeAt(Top.rt)))
                  ELSE forward_call(pre.E, call_args(pre.step.rt, pre.step.ext)))

\* wrapper.rs:287-288, 313-322: with the flag disabled the host call or create of
\* the instruction is forwarded to call_inner / create_inner.
TraceStepForward ==
    /\ Running
    /\ ~is_tracing
    /\ Forwarded(trace_head(inner, Top.rt), trace_step_pre(inner, Top.rt))
    /\ UNCHANGED <<is_tracing, phase, result>>

NewAct(kind) == [parent |-> Top.id, trigger |-> Len(step_logs) + 1, kind |-> kind]

\* The caller's runtime waits in the eval of its instruction; the activation of
\* trace_call / trace_create is pushed.  shadow is what the engine's own
\* call_inner / create_inner returns for the same arguments on the same state.
Entered(h, rt, pending, kind, entry, shadow) ==
    /\ step_logs' = Append(step_logs, h.log)
    /\ inner' = entry.E
    /\ frames' = Append(WithTopFrame([Top EXCEPT !.rt = rt, !.pending = pending]),
                        Frame(kind, entry.rt, entry.address, Len(hist.acts) + 1, shadow))
    /\ hist' = [Logged(h) EXCEPT !.acts = Append(@, NewAct(kind))]

\* Handler::call with the flag enabled (wrapper.rs:300-311).
handler_call(E, a) ==
    trace_call_enter(E, handler_call_args(a).caller, handler_call_args(a).address,
                     handler_call_args(a).value, handler_call_args(a).data,
                     handler_call_args(a).gas_limit)

\* Handler::create with the flag enabled (wrapper.rs:279-285).
handler_create(E, a) ==
    trace_create_enter(E, a.caller, a.value, a.init_code, handler_create_gas(a.target_gas))

CallEntered(h, E, ext, a) ==
    Entered(h, a.rt, ext, "call", handler_call(E, a), call_inner(E, a).res)

CreateEntered(h, E, a) ==
    Entered(h, a.rt, "CREATE", "create", handler_create(E, a), create_inner(E, a).res)

NestedCall(h, pre) ==
    /\ h.out = "log"
    /\ HostCall(pre) /\ pre.step.ext # "CREATE"
    /\ CallEntered(h, pre.E, pre.step.ext, call_args(pre.step.rt, pre.step.ext))

NestedCreate(h, pre) ==
    /\ h.out = "log"
    /\ HostCall(pre) /\ pre.step.ext = "CREATE"
    /\ CreateEntered(h, pre.E, create_args(pre.step.rt, InitCodeAt(Top.rt)))

\* wrapper.rs:300-311: with the flag enabled Handler::call enters trace_call.
TraceNestedCall ==
    /\ Running
    /\ is_tracing
    /\ Len(frames) < MaxFrames
    /\ NestedCall(trace_head(inner, Top.rt), trace_step_pre(inner, Top.rt))
    /\ UNCHANGED <<is_tracing, phase, result>>

\* wrapper.rs:279-285: with the flag enabled Handler::create enters trace_create.
TraceNestedCreate ==
    /\ Running
    /\ is_tracing
    /\ Len(frames) < MaxFrames
    /\ NestedCreate(trace_head(inner, Top.rt), trace_step_pre(inner, Top.rt))
    /\ UNCHANGED <<is_tracing, phase, result>>

Overflowed(h, pre) ==
    /\ h.out = "log"
    /\ HostCall(pre)
    /\ step_logs' = Append(step_logs, h.log)
    /\ inner' = pre.E
    /\ hist' = Logged(h)

\* The recursion of trace_call / trace_create has no bound of its own: the next
\* activation does not fit the native stack.
StackOverflow ==
    /\ Running
    /\ is_tracing
    /\ Len(frames) = MaxFrames
    /\ Overflowed(trace_head(inner, Top.rt), trace_step_pre(inner, Top.rt))
    /\ phase' = "overflow"
    /\ UNCHANGED <<is_tracing, frames, result>>

\* What the top activation returns (wrapper.rs:137-146, 172-185).
TopResult ==
    IF Top.kind = "call" THEN trace_call_result(Top.exit, Top.rt)
    ELSE trace_create_result(Top.exit, Top.address, Top.rt)

Ret ==
    [kind |-> Top.kind, id |-> Top.id, address |-> Top.address, reason |-> Top.exit,
     rt |-> Top.rt,
     res |-> TopResult, shadow |-> Top.shadow]

Resumed(outer, step) ==
    frames' = Append(SubSeq(frames, 1, Len(frames) - 2),
                     [outer EXCEPT !.rt = step.rt, !.pending = "", !.exit = trace_tail(step)])

\* A nested trace_call / trace_create returns into the eval of the caller's
\* instruction, and the caller's loop goes on (wrapper.rs:106-114).
ReturnNested ==
    /\ phase = "running"
    /\ Len(frames) >= 2
    /\ Top.exit # NoReason
    /\ Resumed(frames[Len(frames) - 1],
               IF frames[Len(frames) - 1].pending = "CREATE"
               THEN create_finish(frames[Len(frames) - 1].rt, TopResult)
               ELSE call_finish(frames[Len(frames) - 1].rt, TopResult))
    /\ hist' = [hist EXCEPT !.last_ret = Ret]
    /\ UNCHANGED <<is_tracing, step_logs, inner, phase, result>>

\* The top-level trace_call / trace_create returns to its caller.
ReturnTop ==
    /\ phase = "running"
    /\ Len(frames) = 1
    /\ Top.exit # NoReason
    /\ result' = TopResult
    /\ phase' = "returned"
    /\ hist' = [hist EXCEPT !.last_ret = Ret]
    /\ UNCHANGED <<is_tracing, step_logs, inner, frames>>

Next ==
    \/ TopTraceCall
    \/ TopTraceCreate
    \/ TraceBreak
    \/ TracePanic
    \/ TraceStep
    \/ TraceStepForward
    \/ TraceNestedCall
    \/ TraceNestedCreate
    \/ StackOverflow
    \/ ReturnNested
    \/ ReturnTop

Spec == Init /\ [][Next]_vars

-----------------------------------------------------------------------------
(* Properties *)

LastRet == hist.last_ret

Nested(r) == r.shadow.capture = "Exit"

\* C1: a nested traced call or create returns to its caller what the engine's own
\* call_inner / create_inner returns for the same arguments on the same state:
\* the same exit reason, the same created address and the same output.
C1_TraceTransparency ==
    Nested(LastRet) =>
        /\ LastRet.res.reason = LastRet.shadow.reason
        /\ LastRet.res.address = LastRet.shadow.address
        /\ LastRet.res.output = LastRet.shadow.output

Carries(r) == r.reason.kind \in {"Succeed", "Revert"}

OutputPaired(r) == r.res.output = IF Carries(r) THEN return_value(r.rt) ELSE <<>>

\* C2 as stated: trace_create gives the reason of its loop; the created address is
\* present exactly on Succeed or Revert; the output is the runtime's return value
\* on Succeed or Revert and empty on Error or Fatal.
C2_AddressOnSucceedOrRevert ==
    LastRet.kind = "create" =>
        /\ LastRet.res.reason = LastRet.reason
        /\ LastRet.res.address.some <=> Carries(LastRet)
        /\ OutputPaired(LastRet)

\* C2: trace_create gives the reason of its loop; the created address is present
\* exactly on Succeed, and then it is the address trace_create computed; the
\* output is the runtime's return value on Succeed or Revert and empty on Error
\* or Fatal.
C2_AddressOnSucceed ==
    LastRet.kind = "create" =>
        /\ LastRet.res.capture = "Exit"
        /\ LastRet.res.reason = LastRet.reason
        /\ LastRet.res.address.some <=> LastRet.reason.kind = "Succeed"
        /\ LastRet.res.address.some => LastRet.res.address.v = LastRet.address
        /\ OutputPaired(LastRet)

\* A trace_create whose init code reverted with data has returned.
C2_RevertedCreate ==
    /\ LastRet.kind = "create"
    /\ LastRet.reason.kind = "Revert"
    /\ LastRet.res.output # <<>>

\* C3: trace_call returns an exit, never a trap, with the reason of its loop and
\* no address; the output is the runtime's return value on Succeed or Revert and
\* empty on Error or Fatal.
C3_CallResult ==
    LastRet.kind = "call" =>
        /\ LastRet.res.capture = "Exit"
        /\ LastRet.res.reason = LastRet.reason
        /\ ~LastRet.res.address.some
        /\ OutputPaired(LastRet)

\* A trace_call whose callee reverted with data has returned.
C3_RevertedCall ==
    /\ LastRet.kind = "call"
    /\ LastRet.reason.kind = "Revert"
    /\ LastRet.res.output # <<>>

\* C4 as stated: there are as many records as instructions whose cost computation
\* succeeded, also when a later stage of the iteration failed.
C4_RecordPerCostedInstruction == Len(step_logs) = hist.cost_ok

\* C4: there are as many records as instructions for which the cost computation,
\* the gasometer's realized cost and the position all succeeded.
C4_RecordPerStagedInstruction == Len(step_logs) = hist.all_ok

\* A loop has ended at the gasometer after its cost computation succeeded, with
\* earlier records in place.
C4_LateFailure ==
    /\ \E i \in DOMAIN frames : frames[i].stage = "gasometer"
    /\ hist.cost_ok > Len(step_logs)
    /\ Len(step_logs) > 0

Act(j) == hist.acts[hist.owner[j]]

\* C5: the records of one run all have the same depth, before and after the
\* nested traced calls it makes, and the records of a nested run are not
\* shallower than the record of the instruction that made the call.
C5_DepthRestored ==
    /\ \A i, j \in DOMAIN step_logs :
         hist.owner[i] = hist.owner[j] => step_logs[i].depth = step_logs[j].depth
    /\ \A j \in DOMAIN step_logs :
         Act(j).parent # 0 => step_logs[j].depth >= step_logs[Act(j).trigger].depth

\* C6: the records of a nested traced run come after the record of the
\* instruction that made the call and before the later records of the calling
\* run, and each of them is strictly deeper than the record of that instruction.
C6_NestedDeeper ==
    \A j \in DOMAIN step_logs :
        Act(j).parent # 0 =>
            /\ Act(j).trigger < j
            /\ hist.owner[Act(j).trigger] = Act(j).parent
            /\ \A k \in DOMAIN step_logs :
                 (hist.owner[k] = Act(j).parent /\ k > Act(j).trigger) => k > j
            /\ step_logs[j].depth > step_logs[Act(j).trigger].depth

\* A nested traced call has appended a record, and the calling run has appended
\* one after it.
C6_NestedRecord ==
    \E j, k \in DOMAIN step_logs :
        /\ Act(j).parent # 0 /\ Act(j).kind = "call"
        /\ hist.owner[k] = Act(j).parent /\ k > j

\* C7: a trace never aborts on a runtime without a next instruction; a traced
\* call of an empty program with empty input returns Succeed(Stopped) and leaves
\* no record.
C7_EmptyProgramStops ==
    /\ phase # "panicked"
    /\ (phase = "returned" /\ frames[1].kind = "call"
            /\ inner.backend.code[Addr.A] = <<>>)
        => (result.reason = Stopped /\ step_logs = <<>>)

RECURSIVE UsedFrom(_, _)
\* The gas used in the substates from the i-th on.
UsedFrom(subs, i) ==
    IF i > Len(subs) THEN 0 ELSE subs[i].gasometer.used_gas + UsedFrom(subs, i + 1)

\* C8: the gas limit of the invocation bounds its execution: the gas used in all
\* the substates it entered stays within the limit, and the recursion of nested
\* traces stays within the native stack.
C8_GasBoundsExecution ==
    /\ UsedFrom(inner.substates, 2) <= TxGas
    /\ phase # "overflow"

\* The failure the iteration of the top activation meets, from the engine's
\* cost computation, gasometer and position.
LoopFailure ==
    IF inspect(Top.rt).some /\ ~CostOk
    THEN ErrorOf(opcode_cost(inspect(Top.rt).v, Top.rt.stack,
                             TopSubstate(inner).is_static).err)
    ELSE IF inspect(Top.rt).some /\ ~AllOk /\ Top.rt.position.ok
    THEN ErrorOf("OutOfGas")
    ELSE Top.rt.position.reason

Fails == Running /\ Len(frames') = Len(frames) /\ frames'[Len(frames)].stage # ""

Returns == phase = "running" /\ hist'.last_ret # hist.last_ret

C9_Step ==
    /\ Fails => /\ step_logs' = step_logs
                /\ frames'[Len(frames)].exit = LoopFailure
    /\ Returns => /\ step_logs' = step_logs
                  /\ hist'.last_ret.res.capture = "Exit"
                  /\ hist'.last_ret.res.reason = Top.exit

\* C9: a failure of the cost computation, the gasometer or the position ends the
\* loop with exactly that failure, pushes no record and keeps the earlier
\* records; trace_call / trace_create then returns that reason with the records.
C9_FailureEndsLoop == [][C9_Step]_vars

\* A top-level trace has returned the failure of its loop after earlier records.
C9_FailedAfterRecords ==
    /\ phase = "returned"
    /\ frames[1].stage \in {"cost", "gasometer"}
    /\ result.reason = frames[1].exit
    /\ result.reason.kind = "Error"
    /\ Len(step_logs) > 0

IsPrefix(s, t) == Len(s) <= Len(t) /\ SubSeq(t, 1, Len(s)) = s

\* C10: step_logs only grows at its end: what is in it is never changed, removed
\* or reordered.
C10_AppendOnly == [][IsPrefix(step_logs, step_logs')]_vars

\* Two records of one run differ in their memory: the earlier one kept the
\* memory it was taken with.
C10_SnapshotKept ==
    \E i, j \in DOMAIN step_logs :
        /\ i < j
        /\ hist.owner[i] = hist.owner[j]
        /\ step_logs[i].memory # step_logs[j].memory

Pushes == Len(step_logs') = Len(step_logs) + 1

\* The storage cached for the account the top activation's runtime executes in.
ContextStorage ==
    IF account(inner, Top.rt.context.address).some
    THEN account(inner, Top.rt.context.address).v.storage
    ELSE EmptyStorage

\* C11: the storage of a record is the storage the engine holds for the account
\* of the context address of the run that pushes the record, which for a call is
\* the called address; it is the empty mapping when the engine holds no such
\* account.
C11_ContextStorage ==
    [][Pushes => /\ Last(step_logs').storage = ContextStorage
                 /\ Top.kind = "call" => Top.rt.context.address = Top.address]_vars

\* A record of a nested run shows a stored slot of the callee that the account
\* of the top-level target does not hold.
C11_CalleeStorage ==
    \E j \in DOMAIN step_logs :
        /\ Act(j).parent # 0
        /\ step_logs[j].storage[0] = 1
        /\ account(inner, Addr.A).some
        /\ account(inner, Addr.A).v.storage[0] = Unset

\* C12: whenever the loop of a running activation inspects no instruction, the
\* position lookup fails.
C12_AssertionUnreachable ==
    Running => (~inspect(Top.rt).some => ~Top.rt.position.ok)

\* C13: no substate is deeper than the engine's call stack limit, and a nested
\* call or create the engine refuses as too deep is not traced.
C13_DepthBounded ==
    /\ \A i \in DOMAIN inner.substates : inner.substates[i].depth <= call_stack_limit
    /\ \A i \in DOMAIN frames : frames[i].shadow.reason # ErrorOf("CallTooDeep")

\* The top activation is about to execute a host call or create with the flag
\* disabled.
Forwards ==
    /\ ~is_tracing
    /\ Running
    /\ trace_head(inner, Top.rt).out = "log"
    /\ HostCall(step_pre(inner, Top.rt))

C14_Step ==
    Forwards =>
        /\ step_logs' = Append(step_logs, trace_head(inner, Top.rt).log)
        /\ Len(frames') = Len(frames)
        /\ inner' = engine_step(inner, Top.rt).E
        /\ frames'[Len(frames)].rt = engine_step(inner, Top.rt).step.rt

\* C14: with the flag disabled a host call or create leaves the engine and the
\* caller's runtime as the engine's own call or create with the instruction's
\* arguments does, and the nested execution pushes no record: the step adds
\* only the record the loop pushed for the calling instruction itself, no
\* activation of trace_call / trace_create is entered, and every record
\* belongs to the top-level run.
C14_ForwardedUntraced ==
    [][/\ C14_Step
       /\ ~is_tracing => /\ Len(frames') <= 1
                          /\ \A j \in DOMAIN step_logs' : hist'.owner[j] = 1]_vars

\* With the flag disabled a static call of a storing callee was forwarded, and
\* the caller's run has gone on.
C14_ForwardedStaticCall ==
    /\ ~is_tracing
    /\ inner.backend.code[Addr.B] = StoreSeq(1) \o <<Ins("STOP")>>
    /\ \E j \in DOMAIN step_logs : step_logs[j].op = "STATICCALL" /\ j < Len(step_logs)

\* The top activation is about to execute an instruction that makes no host
\* call or create.
StepsPlain ==
    /\ Running
    /\ trace_head(inner, Top.rt).out = "log"
    /\ ~HostCall(step_pre(inner, Top.rt))

C15_Step ==
    StepsPlain =>
        /\ step_logs' = Append(step_logs, trace_head(inner, Top.rt).log)
        /\ inner' = engine_step(inner, Top.rt).E
        /\ frames'[Len(frames)].rt = engine_step(inner, Top.rt).step.rt
        /\ frames'[Len(frames)].exit = trace_tail(engine_step(inner, Top.rt).step)

\* C15: the step of an instruction that queries or mutates the host, with its
\* pre_validate, leaves the engine and the runtime as the same step with the
\* engine as its own handler does, errors included; it pushes nothing but the
\* record the loop took before the step; and the tracing flag never changes.
C15_PassThrough == [][C15_Step /\ is_tracing' = is_tracing]_vars

\* A run that stored, loaded, logged and self-destructed has returned.
C15_HostOpsDone ==
    /\ phase = "returned"
    /\ result.reason = Suicided
    /\ \E i \in DOMAIN inner.substates :
         /\ inner.substates[i].logs # <<>>
         /\ Addr.A \in inner.substates[i].deleted
         /\ inner.substates[i].state[Addr.A].storage[0] = 1
    /\ \E j \in DOMAIN step_logs : step_logs[j].op = "LOG0" /\ step_logs[j].stack[1] = 1

\* The step of the top activation's instruction ends its run.
EndsByStep ==
    /\ Running
    /\ Len(frames') = Len(frames)
    /\ frames'[Len(frames)].exit # NoReason
    /\ frames'[Len(frames)].stage = ""

C16_Step ==
    /\ Pushes =>
         /\ Running
         /\ SubSeq(step_logs', 1, Len(step_logs)) = step_logs
         /\ hist'.owner[Len(step_logs')] = Top.id
         /\ Last(step_logs').op = inspect(Top.rt).v.op
         /\ Last(step_logs').pc = Top.rt.position.at
         /\ Last(step_logs').stack = Top.rt.stack
         /\ Last(step_logs').memory = Top.rt.memory
         /\ Last(step_logs').gas = ExecutorGas(inner)
    /\ EndsByStep => Pushes

\* C16: a record holds the instruction, program counter, stack, memory and the
\* gas the engine reports as they are before the instruction executes; when the
\* step of an instruction ends the run, by an exit or by an error of the
\* execution, the record of that instruction has been pushed and is the last
\* record of the run.
C16_RecordBeforeStep == [][C16_Step]_vars

\* A run ended by the error of executing its third instruction: the record of
\* that instruction is the last one, after a record showing the stack the
\* second instruction was about to pop.
C16_FailedInExecution ==
    /\ phase = "returned"
    /\ frames[1].stage = ""
    /\ result.reason = ErrorOf("StackUnderflow")
    /\ Len(step_logs) = 3
    /\ step_logs[2].stack = <<1>> /\ step_logs[3].stack = <<>>
    /\ step_logs[3].op = "POP"

\* A nested activation of trace_call / trace_create is entered.
Enters == Running /\ Len(frames') = Len(frames) + 1

\* What eval gives Handler::call for the instruction of the top activation.
CallAsked == call_args(step_pre(inner, Top.rt).step.rt, step_pre(inner, Top.rt).step.ext)

GasAsked(target_gas) == IF target_gas.some THEN target_gas.v ELSE U64_MAX

C17_Call ==
    /\ Top'.rt.context.address = CallAsked.code_address
    /\ Top'.rt.context.caller =
         IF CallAsked.transfer.some THEN CallAsked.transfer.v.source
         ELSE CallAsked.code_address
    /\ Top'.rt.context.apparent_value =
         IF CallAsked.transfer.some THEN CallAsked.transfer.v.value ELSE 0
    /\ Top'.rt.data = CallAsked.input
    /\ TopSubstate(inner').gasometer.gas_limit = GasAsked(CallAsked.target_gas)

C17_Create ==
    TopSubstate(inner').gasometer.gas_limit =
        GasAsked(create_args(step_pre(inner, Top.rt).step.rt, <<>>).target_gas)

\* C17: with the flag enabled the run a host call enters has the transfer's
\* source and value as caller and value when there is a transfer, and the code
\* address as caller and value 0 when there is none; the gas limit of the run a
\* host call or create enters is the target gas when given and u64::MAX when not.
C17_TracedArguments ==
    [][Enters => /\ is_tracing
                 /\ IF Top'.kind = "call" THEN C17_Call ELSE C17_Create]_vars

\* A nested run was entered by a call without a transfer: its caller is the
\* callee itself, not the calling account.
C17_NoTransferCall ==
    \E i \in DOMAIN frames :
        /\ i > 1
        /\ frames[i].kind = "call"
        /\ frames[i].rt.context.caller = frames[i].rt.context.address
        /\ frames[i].rt.context.caller # frames[i - 1].rt.context.address
        /\ frames[i].rt.context.apparent_value = 0

Unhandled == FatalOf("UnhandledInterrupt")

\* C18: no loop ends with Fatal(UnhandledInterrupt), and no trace_call /
\* trace_create returns it.
C18_NoUnhandledInterrupt ==
    /\ \A i \in DOMAIN frames : frames[i].exit # Unhandled
    /\ result.reason # Unhandled
    /\ LastRet.reason # Unhandled

\* A nested traced call has resolved to an exit inside the step of the calling
\* instruction, and the calling run went on to its own end.
C18_HostCallResolved ==
    /\ phase = "returned"
    /\ is_tracing
    /\ Len(hist.acts) = 2
    /\ hist.acts[2].kind = "call"
    /\ result.reason.kind = "Succeed"
    /\ Last(step_logs).op = "STOP" /\ Last(hist.owner) = 1

\* C19: the engine holds its root substate and one substate for every
\* trace_call / trace_create entered so far, returned or not, each one deeper
\* than the one before and none static: an invocation pushes one substate and
\* nothing pops it.
C19_SubstatePerInvocation ==
    /\ Len(inner.substates) = 1 + Len(hist.acts)
    /\ \A i \in DOMAIN inner.substates :
         /\ inner.substates[i].depth = i - 2
         /\ ~inner.substates[i].is_static

\* A top-level invocation that made two nested traced calls has returned, and
\* the second nested run pushed a record.
C19_ThreeInvocationsReturned ==
    /\ phase = "returned"
    /\ Len(hist.acts) = 3
    /\ Len(inner.substates) = 4
    /\ LastRet.id = 1
    /\ \E j \in DOMAIN step_logs : hist.owner[j] = 3

====
